---- MODULE Spec2Model ----
(***************************************************************************)
(* Model of the DOI deposit pipeline of doi_request:                       *)
(*   src/doi_request/depositor.py   Depositor (schema, rewriter, deposit)  *)
(*   src/processing/exportDOI.py    ExportDOI (batch driver)               *)
(* The store is modelled as a committed (durable) database `db` and the    *)
(* session's view `sess` with its uncommitted writes; commit copies the    *)
(* session's view into the database.                                       *)
(***************************************************************************)
EXTENDS Integers, Sequences, FiniteSets, TLC

VARIABLES
    pc,               \* position of the batch process
    ret,              \* how the last deposit() call ended
    cfg,              \* prefix, depositor_name, depositor_email (constructor arguments)
    xsd_ok,           \* environment: does the XSD file parse into a schema
    crossref_schema,  \* Depositor.crossref_schema: "unset" or "loaded"
    issnsLeft,        \* ISSNs not yet iterated by run()
    docsLeft,         \* documents the current catalog listing still yields
    clock,            \* last value returned by datetime.now()
    db,               \* committed store: [deposit, logevent]
    sess,             \* DBSession's view: committed rows plus pending writes
    requests,         \* XML requests sent to the catalog, one per fetching call
    calls,            \* number of deposit() calls begun (identity of depitem objects)
    document,         \* deposit(): the document argument
    code,             \* deposit(): local code
    doi_prefix,       \* deposit(): local doi_prefix
    now,              \* deposit(): local now
    depitem,          \* deposit(): identity of the Deposit object built by this call
    xml,              \* deposit(): local xml (the fetched string)
    mark,             \* length of the session's LogEvent list when the call began
    writers           \* concurrent deposit() executions against one store (SpecConcurrent)

vars == <<pc, ret, cfg, xsd_ok, crossref_schema, issnsLeft, docsLeft, clock, db, sess,
          requests, calls, document, code, doi_prefix, now, depitem, xml, mark, writers>>

------------------------------------------------------------------------------
(* Bounds *)

MaxIssns == 2
MaxDocs == 2
MaxCalls == 2
MaxClock == 2

------------------------------------------------------------------------------
(* Values *)

\* A nullable column or attribute: None, or a one-element tuple holding the value.
None == <<>>

Some(v) == <<v>>

\* Strings that are split or case-folded are sequences of characters.
Chars == {"a", "A", "b", "B", "x", "/"}

\* str.lower() on one character.
LowerChar(c) == CASE c = "A" -> "a" [] c = "B" -> "b" [] OTHER -> c

\* str.lower()
Lower(s) == [i \in 1..Len(s) |-> LowerChar(s[i])]

\* index of the first '/' in s, or Len(s)+1 when there is none
RECURSIVE FirstSlash(_, _)
FirstSlash(s, i) ==
    IF i > Len(s) THEN Len(s) + 1
    ELSE IF s[i] = "/" THEN i
    ELSE FirstSlash(s, i + 1)

\* s.split('/')[0]
SplitHead(s) == SubSeq(s, 1, FirstSlash(s, 1) - 1)

\* document.doi.split('/')[0] if document.doi else ''
DoiPrefix(doi) == IF doi = None \/ doi[1] = <<>> THEN <<>> ELSE SplitHead(doi[1])

\* '_'.join([collection_acronym, publisher_id])
Code(doc) == <<doc.collection_acronym, "_", doc.publisher_id>>

\* '%s.xml' % code
XmlFileName(c) == c \o <<".xml">>

Collections == {"scl"}

Pids == {"S1", "S2"}

Dois == { None,
          Some(<<"a", "B", "/", "x">>),
          Some(<<"A", "b", "/", "x", "/", "a">>),
          Some(<<"a", "/", "a", "b">>),
          Some(<<"a", "b">>) }

Documents == [collection_acronym : Collections, publisher_id : Pids, doi : Dois]

Prefixes == { <<"a", "b">>, <<"A", "B">> }

DepositorNames == {"", "SciELO"}

DepositorEmails == {"", "s@x"}

------------------------------------------------------------------------------
(* XML: a string is either not well-formed or the serialization of a tree; *)
(* a tree is the sequence of its elements in document order.               *)

El(tag, text) == [tag |-> tag, text |-> text]

\* the string the catalog returns for fmt='xmlcrossref'
XmlString(wf, elems) == [wf |-> wf, elems |-> elems, pretty |-> FALSE]

XmlInputs == {
    XmlString(FALSE, <<>>),
    XmlString(TRUE, << El("doi_batch_id", "b1"), El("depositor_name", ""),
                       El("email_address", ""), El("registrant", ""), El("body", "ok") >>),
    XmlString(TRUE, << El("doi_batch_id", "b2"), El("depositor_name", "dep"),
                       El("email_address", "e@x"), El("registrant", "reg"), El("body", "ok") >>),
    XmlString(TRUE, << El("doi_batch_id", "b3"), El("depositor_name", "dep"),
                       El("email_address", "e@x"), El("body", "ok") >>),
    XmlString(TRUE, << El("doi_batch_id", "b4"), El("depositor_name", "dep"),
                       El("email_address", "e@x"), El("registrant", "reg"), El("body", "bad") >>) }

\* the value '' that xml_is_valid returns in place of a document
NoDoc == [is_tree |-> FALSE, tree |-> <<>>]

Doc(tree) == [is_tree |-> TRUE, tree |-> tree]

\* etree.parse(BytesIO(xml.encode('utf-8')))
Parse(x) == IF x.wf THEN [raised |-> FALSE, doc |-> Doc(x.elems)]
            ELSE [raised |-> TRUE, doc |-> NoDoc]

\* etree.tostring(parsed_xml, encoding='utf-8', pretty_print=True).decode('utf-8');
\* a str argument raises TypeError
EtreeToString(d) == IF d.is_tree
               THEN [raised |-> FALSE, text |-> [wf |-> TRUE, elems |-> d.tree, pretty |-> TRUE]]
               ELSE [raised |-> TRUE, text |-> [wf |-> FALSE, elems |-> <<>>, pretty |-> FALSE]]

\* xml.find('//{ns}tag'): index of the first element with the tag, 0 for None
RECURSIVE FindFrom(_, _, _)
FindFrom(tree, tag, i) ==
    IF i > Len(tree) THEN 0
    ELSE IF tree[i].tag = tag THEN i
    ELSE FindFrom(tree, tag, i + 1)

Find(tree, tag) == FindFrom(tree, tag, 1)

\* element.text = value; on None (index 0) the assignment raises AttributeError
SetText(r, tag, value) ==
    IF r.raised THEN r
    ELSE IF Find(r.tree, tag) = 0 THEN [r EXCEPT !.raised = TRUE]
    ELSE [r EXCEPT !.tree[Find(r.tree, tag)].text = value]

\* _setup_depositor writing the name to the registrant element only
SetupDepositor_RegistrantOnly(tree, name, email) ==
    LET r0 == [raised |-> FALSE, tree |-> tree]
        r1 == IF name # "" THEN SetText(r0, "registrant", name) ELSE r0
    IN IF email # "" THEN SetText(r1, "email_address", email) ELSE r1

\* Depositor._setup_depositor
SetupDepositor(tree, name, email) ==
    LET r0 == [raised |-> FALSE, tree |-> tree]
        r1 == IF name # "" THEN SetText(SetText(r0, "registrant", name), "depositor_name", name)
              ELSE r0
    IN IF email # "" THEN SetText(r1, "email_address", email) ELSE r1

RequiredTags == {"doi_batch_id", "depositor_name", "email_address", "registrant"}

\* the Crossref 4.4.0 schema: the head elements occur once and are populated
SchemaValid(tree) ==
    /\ \A t \in RequiredTags :
           /\ Cardinality({i \in 1..Len(tree) : tree[i].tag = t}) = 1
           /\ tree[Find(tree, t)].text # ""
    /\ \A i \in 1..Len(tree) : tree[i].tag = "body" => tree[i].text = "ok"

\* Depositor._parse_schema: the exception is swallowed and the attribute is left unset
ParseSchema(ok) == IF ok THEN "loaded" ELSE "unset"

\* Depositor.xml_is_valid: (is_valid, xml_doc, error), or an exception that escapes
XmlIsValid(x, name, email, schema) ==
    LET p == Parse(x)
        s == SetupDepositor(p.doc.tree, name, email)
    IN IF p.raised
       THEN [raised |-> FALSE, is_valid |-> FALSE, parsed_xml |-> NoDoc, exc |-> "XMLSyntaxError"]
       ELSE IF s.raised
       THEN [raised |-> TRUE, is_valid |-> FALSE, parsed_xml |-> NoDoc, exc |-> "AttributeError"]
       ELSE IF schema # "loaded"
       THEN [raised |-> TRUE, is_valid |-> FALSE, parsed_xml |-> NoDoc, exc |-> "AttributeError"]
       ELSE IF SchemaValid(s.tree)
       THEN [raised |-> FALSE, is_valid |-> TRUE, parsed_xml |-> Doc(s.tree), exc |-> ""]
       ELSE [raised |-> FALSE, is_valid |-> FALSE, parsed_xml |-> Doc(s.tree),
             exc |-> "DocumentInvalid"]

\* parsed_xml.find('//{ns}doi_batch_id').text
DoiBatchId(tree) == tree[Find(tree, "doi_batch_id")].text

------------------------------------------------------------------------------
(* The store *)

\* Deposit(code=..., pid=..., ..., submission_status='waiting', ...): the
\* columns the constructor does not set are None; oid is the object's identity
NewDeposit(oid, doc, t) ==
    [ oid |-> oid,
      code |-> Code(doc),
      pid |-> doc.publisher_id,
      collection_acronym |-> doc.collection_acronym,
      xml_file_name |-> XmlFileName(Code(doc)),
      doi |-> doc.doi,
      prefix |-> DoiPrefix(doc.doi),
      submission_updated_at |-> t,
      submission_status |-> "waiting",
      updated_at |-> t,
      started_at |-> t,
      feedback_status |-> None,
      feedback_updated_at |-> None,
      is_xml_valid |-> None,
      submission_xml |-> None,
      doi_batch_id |-> None ]

\* LogEvent() with its attributes assigned
NewLogEvent(title, body, type, status, c, date) ==
    [ title |-> title, body |-> body, type |-> type, status |-> status,
      deposit_code |-> c, date |-> date ]

\* DBSession.query(Deposit).filter_by(code=code): the rows with the code
QueryByCode(s, c) == {r \in s.deposit : r.code = c}

\* the LogEvent rows left when the Deposit row of code c is deleted: the events
\* refer to the row by value and are kept
LogEventsAfterDelete(events, c) == events

\* SessDelete with the delete forgotten: the old row stays
SessDelete_Kept(s, row) == s

\* SessDelete taking the LogEvents of the row's code with it
SessDelete_Cascade(s, row) ==
    [ deposit |-> s.deposit \ {row},
      logevent |-> SelectSeq(s.logevent, LAMBDA e : e.deposit_code # row.code) ]

\* DBSession.delete(deposit)
SessDelete(s, row) ==
    [ deposit |-> s.deposit \ {row},
      logevent |-> LogEventsAfterDelete(s.logevent, row.code) ]

\* DBSession.add(depitem)
SessAddDeposit(s, row) == [s EXCEPT !.deposit = @ \cup {row}]

\* DBSession.add(logevent)
SessAddLogEvent(s, ev) == [s EXCEPT !.logevent = Append(@, ev)]

\* the Deposit object with identity oid as the session holds it
Tracked(s, oid) == CHOOSE r \in s.deposit : r.oid = oid

\* attribute assignments on a Deposit object tracked by the session: the
\* session's row of that object becomes row
Assign(s, oid, row) ==
    [s EXCEPT !.deposit = {IF r.oid = oid THEN row ELSE r : r \in @}]

\* datetime.now(): the clock does not run backwards
Times == {t \in {clock, clock + 1} : t <= MaxClock}

------------------------------------------------------------------------------
(* deposit(): the assignments of each branch *)

\* GateMismatch comparing without folding case
GateMismatch_CaseSensitive(dp, prefix) == dp # prefix

\* doi_prefix.lower() != self.prefix.lower()
GateMismatch(dp, prefix) == Lower(dp) # Lower(prefix)

\* MismatchUpdate with the feedback status left unassigned
MismatchUpdate_NoFeedback(r, t) ==
    [r EXCEPT !.submission_status = "notapplicable",
              !.submission_updated_at = t,
              !.feedback_updated_at = Some(t),
              !.updated_at = t]

\* the prefix-mismatch branch's assignments to depitem
MismatchUpdate(r, t) ==
    [r EXCEPT !.submission_status = "notapplicable",
              !.feedback_status = Some("notapplicable"),
              !.submission_updated_at = t,
              !.feedback_updated_at = Some(t),
              !.updated_at = t]

MismatchEvent(c, t) == NewLogEvent("prefix_mismatch", None, "general", "notapplicable", c, t)

\* LoadingEvent labelled with the wrong status
LoadingEvent_AsError(c, t) == NewLogEvent("loading", None, "submission", "error", c, t)

\* the LogEvent added before the catalog is asked for the XML
LoadingEvent(c, t) == NewLogEvent("loading", None, "submission", "info", c, t)

\* the except branch's assignments to depitem
FetchErrorUpdate(r, t) ==
    [r EXCEPT !.submission_status = "error",
              !.submission_updated_at = t,
              !.updated_at = t]

FetchErrorEvent(c, t) == NewLogEvent("fail_load", Some("FetchError"), "submission", "error", c, t)

\* SubmissionXmlUpdate storing the text without the pretty-printed layout
SubmissionXmlUpdate_Raw(r, text) == [r EXCEPT !.submission_xml = Some([text EXCEPT !.pretty = FALSE])]

\* depitem.submission_xml = etree.tostring(...)
SubmissionXmlUpdate(r, text) == [r EXCEPT !.submission_xml = Some(text)]

\* InvalidUpdate with the status assignment left out
InvalidUpdate_StatusKept(r, t) ==
    [r EXCEPT !.is_xml_valid = Some(FALSE),
              !.submission_updated_at = t,
              !.updated_at = t]

\* the is_valid is False branch's assignments to depitem
InvalidUpdate(r, t) ==
    [r EXCEPT !.is_xml_valid = Some(FALSE),
              !.submission_status = "error",
              !.submission_updated_at = t,
              !.updated_at = t]

InvalidEvent(c, exc, t) == NewLogEvent("xml_invalid", Some(exc), "submission", "error", c, t)

\* ValidUpdate marking the deposit as succeeded
ValidUpdate_Success(r, tree) ==
    [r EXCEPT !.is_xml_valid = Some(TRUE),
              !.submission_status = "success",
              !.doi_batch_id = Some(DoiBatchId(tree))]

\* ValidUpdate refreshing the row's timestamps to a later instant
ValidUpdate_Refreshed(r, tree) ==
    [r EXCEPT !.is_xml_valid = Some(TRUE),
              !.submission_status = "waiting",
              !.doi_batch_id = Some(DoiBatchId(tree)),
              !.submission_updated_at = @ + 1,
              !.updated_at = @ + 1]

\* the valid branch's assignments to depitem
ValidUpdate(r, tree) ==
    [r EXCEPT !.is_xml_valid = Some(TRUE),
              !.submission_status = "waiting",
              !.doi_batch_id = Some(DoiBatchId(tree))]

ValidEvent(c, t) == NewLogEvent("xml_valid", None, "submission", "success", c, t)

------------------------------------------------------------------------------
(* Initial state: nothing constructed, the store empty *)

EmptyStore == [deposit |-> {}, logevent |-> <<>>]

\* the batch run is one process: no other execution of deposit() is under way
NoWriters == <<>>

Init ==
    /\ pc = "init"
    /\ ret = "none"
    /\ cfg \in [prefix : Prefixes, depositor_name : DepositorNames,
                depositor_email : DepositorEmails]
    /\ xsd_ok \in BOOLEAN
    /\ crossref_schema = "unset"
    /\ issnsLeft \in 0..MaxIssns
    /\ docsLeft = 0
    /\ clock = 0
    /\ db = EmptyStore
    /\ sess = EmptyStore
    /\ requests = {}
    /\ calls = 0
    /\ document = [collection_acronym |-> "scl", publisher_id |-> "S1", doi |-> None]
    /\ code = <<>>
    /\ doi_prefix = <<>>
    /\ now = 0
    /\ depitem = 0
    /\ xml = XmlString(FALSE, <<>>)
    /\ mark = 0
    /\ writers = NoWriters

locals == <<document, code, doi_prefix, now, depitem, xml, mark>>

config == <<cfg, xsd_ok, crossref_schema>>

------------------------------------------------------------------------------
(* The batch driver *)

\* ExportDOI.__init__ and Depositor.__init__: _parse_schema's failure is not raised
Construct ==
    /\ pc = "init"
    /\ crossref_schema' = ParseSchema(xsd_ok)
    /\ issnsLeft' = IF issnsLeft = 0 THEN 1 ELSE issnsLeft
    /\ pc' = "outer"
    /\ UNCHANGED <<ret, cfg, xsd_ok, docsLeft, clock, db, sess, requests, calls, locals, writers>>

\* for issn in self.issns: the catalog listing for the ISSN is opened
NextIssn ==
    /\ pc = "outer"
    /\ issnsLeft > 0
    /\ issnsLeft' = issnsLeft - 1
    /\ \E n \in 0..MaxDocs : n <= MaxCalls - calls /\ docsLeft' = n
    /\ pc' = "inner"
    /\ UNCHANGED <<ret, config, clock, db, sess, requests, calls, locals, writers>>

\* the listing of the current ISSN is exhausted
EndListing ==
    /\ pc = "inner"
    /\ docsLeft = 0
    /\ pc' = "outer"
    /\ UNCHANGED <<ret, config, issnsLeft, docsLeft, clock, db, sess, requests, calls, locals, writers>>

\* run() returns and the process exits: the session's pending writes are dropped
Finish ==
    /\ pc = "outer"
    /\ issnsLeft = 0
    /\ pc' = "finished"
    /\ sess' = db
    /\ UNCHANGED <<ret, config, issnsLeft, docsLeft, clock, db, requests, calls, locals, writers>>

\* the listing yields a document and deposit(document) is entered: lines 82-99
NextDocument ==
    /\ pc = "inner"
    /\ docsLeft > 0
    /\ docsLeft' = docsLeft - 1
    /\ \E doc \in Documents, t \in Times :
          /\ document' = doc
          /\ code' = Code(doc)
          /\ doi_prefix' = DoiPrefix(doc.doi)
          /\ now' = t
          /\ clock' = t
    /\ calls' = calls + 1
    /\ depitem' = calls + 1
    /\ mark' = Len(sess.logevent)
    /\ ret' = "none"
    /\ pc' = "l101"
    /\ UNCHANGED <<config, issnsLeft, db, sess, requests, xml, writers>>

------------------------------------------------------------------------------
(* Depositor.deposit, one action per stretch of code between commits *)

in_call == <<config, issnsLeft, docsLeft, calls, document, code, doi_prefix, depitem, mark,
            writers>>

\* lines 101-105: look the code up; delete the row found and commit
DeleteOld ==
    /\ pc = "l101"
    /\ LET found == QueryByCode(sess, code)
       IN IF found # {}
          THEN /\ sess' = SessDelete(sess, CHOOSE r \in found : TRUE)
               /\ db' = sess'
          ELSE UNCHANGED <<db, sess>>
    /\ pc' = "l107"
    /\ UNCHANGED <<in_call, ret, clock, requests, now, xml>>

\* Insert with the commit of line 108 left out
Insert_NoCommit ==
    /\ pc = "l107"
    /\ sess' = SessAddDeposit(sess, NewDeposit(depitem, document, now))
    /\ pc' = "l110"
    /\ UNCHANGED <<in_call, db, ret, clock, requests, now, xml>>

\* lines 107-108: add the new row and commit
Insert ==
    /\ pc = "l107"
    /\ sess' = SessAddDeposit(sess, NewDeposit(depitem, document, now))
    /\ db' = sess'
    /\ pc' = "l110"
    /\ UNCHANGED <<in_call, ret, clock, requests, now, xml>>

\* lines 110-126: the prefix gate; on a mismatch the call ends here
Gate ==
    /\ pc = "l110"
    /\ IF GateMismatch(doi_prefix, cfg.prefix)
       THEN \E t \in Times :
               /\ now' = t
               /\ clock' = t
               /\ sess' = SessAddLogEvent(
                              Assign(sess, depitem, MismatchUpdate(Tracked(sess, depitem), t)),
                              MismatchEvent(code, t))
               /\ db' = sess'
               /\ ret' = "notapplicable"
               /\ pc' = "inner"
       ELSE /\ pc' = "l128"
            /\ UNCHANGED <<now, clock, sess, db, ret>>
    /\ UNCHANGED <<in_call, requests, xml>>

\* the session after the except branch of the fetch: no commit follows
FetchFailed(s, oid, c, t) ==
    SessAddLogEvent(Assign(s, oid, FetchErrorUpdate(Tracked(s, oid), t)), FetchErrorEvent(c, t))

\* lines 128-155: announce the fetch, ask the catalog for the XML; the request
\* raises, or returns the XML and the announcement is committed
Fetch ==
    /\ pc = "l128"
    /\ requests' = requests \cup {[oid |-> depitem, pid |-> document.publisher_id,
                                  collection |-> document.collection_acronym]}
    /\ LET announced == SessAddLogEvent(sess, LoadingEvent(code, now))
       IN \/ \E t \in Times :
                /\ now' = t
                /\ clock' = t
                /\ sess' = FetchFailed(announced, depitem, code, t)
                /\ ret' = "fetch_error"
                /\ pc' = "inner"
                /\ UNCHANGED <<db, xml>>
          \/ \E x \in XmlInputs :
                /\ xml' = x
                /\ sess' = announced
                /\ db' = sess'
                /\ pc' = "l157"
                /\ UNCHANGED <<now, clock, ret>>
    /\ UNCHANGED in_call

\* lines 157-192: rewrite and validate, store the serialization, record the outcome;
\* an exception of xml_is_valid or etree.tostring leaves deposit() and run()
Validate ==
    /\ pc = "l157"
    /\ LET v == XmlIsValid(xml, cfg.depositor_name, cfg.depositor_email, crossref_schema)
           text == EtreeToString(v.parsed_xml)
           stored == Assign(sess, depitem, SubmissionXmlUpdate(Tracked(sess, depitem), text.text))
       IN IF v.raised \/ text.raised
          THEN /\ ret' = "raised"
               /\ pc' = "crashed"
               /\ UNCHANGED <<now, clock, sess, db>>
          ELSE IF ~v.is_valid
          THEN \E t \in Times :
                  /\ now' = t
                  /\ clock' = t
                  /\ sess' = SessAddLogEvent(
                                 Assign(stored, depitem, InvalidUpdate(Tracked(stored, depitem), t)),
                                 InvalidEvent(code, v.exc, t))
                  /\ db' = sess'
                  /\ ret' = "invalid"
                  /\ pc' = "inner"
          ELSE \E t1 \in Times :
               \E t2 \in {u \in {t1, t1 + 1} : u <= MaxClock} :
                  /\ now' = t1
                  /\ clock' = t2
                  /\ sess' = SessAddLogEvent(
                                 Assign(stored, depitem, ValidUpdate(Tracked(stored, depitem), v.parsed_xml.tree)),
                                 ValidEvent(code, t2))
                  /\ db' = sess'
                  /\ ret' = "valid"
                  /\ pc' = "inner"
    /\ UNCHANGED <<in_call, requests, xml>>

Next ==
    \/ Construct
    \/ NextIssn
    \/ EndListing
    \/ Finish
    \/ NextDocument
    \/ DeleteOld
    \/ Insert
    \/ Gate
    \/ Fetch
    \/ Validate

Spec == Init /\ [][Next]_vars

------------------------------------------------------------------------------
(* Vocabulary of the properties *)

\* deposit() has returned normally and nothing has run since
Returned == pc = "inner" /\ ret \in {"notapplicable", "fetch_error", "invalid", "valid"}

\* the Deposit rows of the current call's code in a store
RowsOf(store) == QueryByCode(store, code)

\* the row of the current call's code, when there is exactly one
RowOf(store) == CHOOSE r \in RowsOf(store) : TRUE

\* the LogEvents a store holds beyond those present when the current call began
EventsOfCall(store) == SubSeq(store.logevent, mark + 1, Len(store.logevent))

\* the LogEvents of a store that carry the current call's code
EventsOfCode(store) == SelectSeq(store.logevent, LAMBDA e : e.deposit_code = code)

\* the part of a DOI before its first '/', empty when the DOI is absent
PartBeforeSlash(doi) ==
    IF doi = None THEN <<>>
    ELSE LET s == doi[1]
             slashes == {i \in 1..Len(s) : s[i] = "/"}
         IN IF slashes = {} THEN s
            ELSE SubSeq(s, 1, (CHOOSE i \in slashes : \A j \in slashes : i <= j) - 1)

\* the current call has asked the catalog for the XML
Fetched == \E q \in requests : q.oid = depitem

\* the fetched tree with the configured depositor identity written into it
Rewritten(tree) ==
    [i \in 1..Len(tree) |->
        IF tree[i].tag \in {"registrant", "depositor_name"} /\ cfg.depositor_name # ""
        THEN El(tree[i].tag, cfg.depositor_name)
        ELSE IF tree[i].tag = "email_address" /\ cfg.depositor_email # ""
        THEN El(tree[i].tag, cfg.depositor_email)
        ELSE tree[i]]

\* the pretty-printed serialization of a tree
Serialized(tree) == [wf |-> TRUE, elems |-> tree, pretty |-> TRUE]

------------------------------------------------------------------------------
(* C1: after deposit() has returned for a code, the store (committed and as *)
(* the session sees it) holds exactly one Deposit row with that code, the   *)
(* row is the object built by the latest call, its constructor columns are  *)
(* those of the latest document, and the columns the latest call's path did *)
(* not assign are None (nothing of the replaced row is merged in); no code  *)
(* has more than one row.                                                   *)
C1_OneRowOfLatestAttempt ==
    Returned =>
        /\ \A st \in {db, sess} :
              /\ Cardinality(RowsOf(st)) = 1
              /\ LET r == RowOf(st)
                     fresh == NewDeposit(depitem, document, r.started_at)
                 IN /\ r.oid = depitem
                    /\ r.doi = document.doi
                    /\ r.pid = document.publisher_id
                    /\ r.prefix = fresh.prefix
                    /\ r.xml_file_name = fresh.xml_file_name
                    /\ ret # "notapplicable" =>
                           r.feedback_status = None /\ r.feedback_updated_at = None
                    /\ ret \in {"notapplicable", "fetch_error"} =>
                           r.is_xml_valid = None /\ r.submission_xml = None
                    /\ ret # "valid" => r.doi_batch_id = None
        /\ \A r1, r2 \in db.deposit : r1.code = r2.code => r1 = r2

\* a code whose earlier attempt validated is deposited again and ends notapplicable
C1_Witness ==
    /\ Returned
    /\ ret = "notapplicable"
    /\ \E i \in 1..mark : /\ db.logevent[i].deposit_code = code
                          /\ db.logevent[i].status = "success"
    /\ RowOf(db).is_xml_valid = None

------------------------------------------------------------------------------
(* C2 as amended: when deposit() returns for a document whose DOI prefix    *)
(* does not match the configured prefix case-insensitively, the committed   *)
(* Deposit of its code has submission_status = feedback_status =            *)
(* notapplicable and the call has added exactly one LogEvent, with          *)
(* type=general, status=notapplicable and the document's code.              *)
C2_MismatchIsNotApplicable ==
    (Returned /\ Lower(PartBeforeSlash(document.doi)) # Lower(cfg.prefix)) =>
        /\ Cardinality(RowsOf(db)) = 1
        /\ RowOf(db).submission_status = "notapplicable"
        /\ RowOf(db).feedback_status = Some("notapplicable")
        /\ Len(EventsOfCall(db)) = 1
        /\ EventsOfCall(db)[1].type = "general"
        /\ EventsOfCall(db)[1].status = "notapplicable"
        /\ EventsOfCall(db)[1].deposit_code = code

\* a mismatching document has been deposited for a code that was deposited before
C2_Witness ==
    /\ Returned
    /\ Lower(PartBeforeSlash(document.doi)) # Lower(cfg.prefix)
    /\ \E i \in 1..mark : db.logevent[i].deposit_code = code
    /\ RowOf(db).feedback_status = Some("notapplicable")

(* C2 as stated: ... and exactly one LogEvent with type=general and         *)
(* status=notapplicable exists for that code.                               *)
C2_Original ==
    (Returned /\ Lower(PartBeforeSlash(document.doi)) # Lower(cfg.prefix)) =>
        /\ Cardinality(RowsOf(db)) = 1
        /\ RowOf(db).submission_status = "notapplicable"
        /\ RowOf(db).feedback_status = Some("notapplicable")
        /\ Cardinality({i \in DOMAIN db.logevent :
                            /\ db.logevent[i].deposit_code = code
                            /\ db.logevent[i].type = "general"
                            /\ db.logevent[i].status = "notapplicable"}) = 1

------------------------------------------------------------------------------
(* C3: a call asks the catalog for the XML if and only if the part of the   *)
(* DOI before the first '/' (empty for an absent DOI) equals the configured *)
(* prefix case-insensitively: no request is made on a mismatch, one has     *)
(* been made once a matching call is past the fetch, and on a mismatch the  *)
(* call adds no submission-type LogEvent.                                   *)
C3_GateDecidesFetch ==
    calls > 0 =>
        LET match == Lower(PartBeforeSlash(document.doi)) = Lower(cfg.prefix)
        IN /\ Fetched => match
           /\ (match /\ (ret # "none" \/ pc = "l157")) => Fetched
           /\ ~match => \A i \in 1..Len(EventsOfCall(sess)) :
                            EventsOfCall(sess)[i].type # "submission"

\* a DOI whose prefix differs from the configured one only in case was fetched
C3_Witness ==
    /\ Returned
    /\ Fetched
    /\ doi_prefix # cfg.prefix
    /\ \E i \in 1..Len(document.doi[1]) : document.doi[1][i] = "/"

------------------------------------------------------------------------------
(* C4: when deposit() returns after a failed catalog fetch, the Deposit of  *)
(* the code has submission_status=error and exactly two LogEvents exist for *)
(* the code, info then error, both of type submission.                      *)
C4_FetchFailureRecorded ==
    (Returned /\ ret = "fetch_error") =>
        /\ Cardinality(RowsOf(db)) = 1
        /\ RowOf(db).submission_status = "error"
        /\ Len(EventsOfCode(db)) = 2
        /\ EventsOfCode(db)[1].status = "info"
        /\ EventsOfCode(db)[2].status = "error"
        /\ \A i \in 1..2 : EventsOfCode(db)[i].type = "submission"

------------------------------------------------------------------------------
(* C5: whenever deposit() returns normally the committed store equals the   *)
(* session's view: no write of the call is left uncommitted.                *)
C5_CommittedOnReturn == Returned => db = sess

------------------------------------------------------------------------------
(* C6: when the fetched XML is not well-formed, deposit() returns normally  *)
(* (the parse error does not reach the batch driver) and the committed      *)
(* Deposit has submission_status=error, with an error-status submission     *)
(* LogEvent carrying the parse error as the call's last committed event.    *)
C6_ParseErrorSwallowed ==
    (ret \in {"invalid", "valid", "raised"} /\ ~xml.wf) =>
        /\ pc # "crashed"
        /\ ret = "invalid"
        /\ Cardinality(RowsOf(db)) = 1
        /\ RowOf(db).submission_status = "error"
        /\ LET evs == EventsOfCall(db)
           IN /\ Len(evs) = 2
              /\ evs[2].type = "submission"
              /\ evs[2].status = "error"
              /\ evs[2].body = Some("XMLSyntaxError")

------------------------------------------------------------------------------
(* C7: when the batch run has ended, every document of every ISSN's listing *)
(* has been passed to deposit(): no ISSN and no listed document is left.    *)
C7_BatchCoversAllDocuments ==
    pc \in {"finished", "crashed"} => (issnsLeft = 0 /\ docsLeft = 0)

------------------------------------------------------------------------------
(* C8: when deposit() returns for XML that is well-formed but fails schema  *)
(* validation after rewriting, the committed Deposit has is_xml_valid=false,*)
(* submission_status=error and submission_xml equal to the serialization of *)
(* the rewritten document, and the call's LogEvents are info then error,    *)
(* both of type submission.                                                 *)
C8_InvalidXmlRecorded ==
    (Returned /\ ret = "invalid") =>
        /\ xml.wf
        /\ ~SchemaValid(Rewritten(xml.elems))
        /\ Cardinality(RowsOf(db)) = 1
        /\ RowOf(db).is_xml_valid = Some(FALSE)
        /\ RowOf(db).submission_status = "error"
        /\ RowOf(db).submission_xml = Some(Serialized(Rewritten(xml.elems)))
        /\ LET evs == EventsOfCall(db)
           IN /\ Len(evs) = 2
              /\ evs[1].status = "info"
              /\ evs[2].status = "error"
              /\ \A i \in 1..2 : evs[i].type = "submission" /\ evs[i].deposit_code = code

\* a schema-invalid document whose depositor fields the rewriter changed
C8_Witness ==
    /\ Returned
    /\ ret = "invalid"
    /\ Rewritten(xml.elems) # xml.elems
    /\ RowOf(db).submission_xml = Some(Serialized(Rewritten(xml.elems)))

------------------------------------------------------------------------------
(* C9: when deposit() returns for XML that passes schema validation after   *)
(* rewriting, the committed Deposit has is_xml_valid=true,                  *)
(* submission_status=waiting, doi_batch_id equal to the document's value,   *)
(* submission_xml equal to the rewritten document's serialization, and the  *)
(* call's last LogEvent is type=submission, status=success.                 *)
C9_ValidXmlRecorded ==
    (Returned /\ ret = "valid") =>
        /\ xml.wf
        /\ SchemaValid(Rewritten(xml.elems))
        /\ Cardinality(RowsOf(db)) = 1
        /\ RowOf(db).is_xml_valid = Some(TRUE)
        /\ RowOf(db).submission_status = "waiting"
        /\ \E i \in 1..Len(xml.elems) :
              /\ xml.elems[i].tag = "doi_batch_id"
              /\ RowOf(db).doi_batch_id = Some(xml.elems[i].text)
        /\ RowOf(db).submission_xml = Some(Serialized(Rewritten(xml.elems)))
        /\ LET evs == EventsOfCall(db)
           IN /\ Len(evs) = 2
              /\ evs[2].type = "submission"
              /\ evs[2].status = "success"
              /\ evs[2].deposit_code = code

\* a document that is schema-valid only because the rewriter filled the fields in
C9_Witness ==
    /\ Returned
    /\ ret = "valid"
    /\ ~SchemaValid(xml.elems)
    /\ RowOf(db).submission_status = "waiting"

------------------------------------------------------------------------------
(* C10: when the schema cannot be loaded, no document is processed: the     *)
(* store receives no Deposit row and no LogEvent in that run.               *)
C10_SchemaFailureIsFatal == ~xsd_ok => (db.deposit = {} /\ db.logevent = <<>>)

------------------------------------------------------------------------------
\* a is an initial segment of b
IsPrefix(a, b) == Len(a) <= Len(b) /\ SubSeq(b, 1, Len(a)) = a

\* the codes a document can have
AllCodes == {Code(d) : d \in Documents}

(* C11: in the committed log and in the session's log, the LogEvents of     *)
(* every code carry non-decreasing dates in append order (within a call and *)
(* across re-deposits of the code), and every error or success submission   *)
(* event of the current call comes after the call's info event announcing   *)
(* the fetch, which is the call's first event.                              *)
C11_EventsInTransitionOrder ==
    \A st \in {db, sess} :
        /\ \A i, j \in DOMAIN st.logevent :
              (i < j /\ st.logevent[i].deposit_code = st.logevent[j].deposit_code)
                  => st.logevent[i].date <= st.logevent[j].date
        /\ \A j \in (mark + 1)..Len(st.logevent) :
              (st.logevent[j].type = "submission" /\ st.logevent[j].status # "info")
                  => /\ j = mark + 2
                     /\ st.logevent[mark + 1].status = "info"
                     /\ st.logevent[mark + 1].type = "submission"
                     /\ st.logevent[mark + 1].deposit_code = st.logevent[j].deposit_code

\* a code is deposited again, and the second call's outcome event is dated
\* later than its announcement
C11_Witness ==
    /\ Returned
    /\ ret \in {"invalid", "valid"}
    /\ \E i \in 1..mark : db.logevent[i].deposit_code = code
    /\ Len(EventsOfCall(db)) = 2
    /\ EventsOfCall(db)[1].date < EventsOfCall(db)[2].date

------------------------------------------------------------------------------
(* C12: no step of a running batch modifies or removes a LogEvent: the      *)
(* committed log and the session's log only grow at their end, also when    *)
(* the Deposit row of the events' code is deleted and replaced.             *)
C12_LogIsAppendOnly ==
    [][ /\ IsPrefix(db.logevent, db.logevent')
        /\ pc' # "finished" => IsPrefix(sess.logevent, sess.logevent') ]_vars

\* the row of a code with earlier events has been replaced and the call is over
C12_Witness ==
    /\ Returned
    /\ mark >= 1
    /\ \E i \in 1..mark : db.logevent[i].deposit_code = code
    /\ Len(EventsOfCode(db)) >= 3
    /\ RowOf(db).oid = 2

------------------------------------------------------------------------------
(* C13: every commit made while a document is processed makes durable only  *)
(* writes to the Deposit row and the LogEvents of that document's code.     *)
C13_CommitsOnlyOwnCode ==
    [][ /\ \A r \in (db'.deposit \ db.deposit) \cup (db.deposit \ db'.deposit) :
               r.code = code'
        /\ \A i \in (Len(db.logevent) + 1)..Len(db'.logevent) :
               db'.logevent[i].deposit_code = code' ]_vars

------------------------------------------------------------------------------
(* C14 as amended: no committed state holds two Deposit rows of one code,   *)
(* and a code that has a committed row keeps exactly one across every step, *)
(* except that the committed delete of its own replacement (lines 104-105)  *)
(* leaves it with none until the insert of lines 107-108 is committed,      *)
(* after which it has exactly one again.                                    *)
C14_OneRowExceptReplaceWindow ==
    [][ /\ \A c \in AllCodes :
              /\ Cardinality(QueryByCode(db', c)) <= 1
              /\ QueryByCode(db, c) # {} =>
                    \/ Cardinality(QueryByCode(db', c)) = 1
                    \/ pc = "l101" /\ c = code /\ QueryByCode(db', c) = {}
        /\ pc = "l107" => Cardinality(QueryByCode(db', code)) = 1 ]_vars

\* the window: the old row's delete is committed and the new row is not yet inserted
C14_Witness ==
    /\ pc = "l107"
    /\ calls = 2
    /\ db.deposit = {}

(* C14 as stated: a code that has a committed row has exactly one committed *)
(* row after every step.                                                    *)
C14_Original ==
    [][ \A c \in AllCodes :
            QueryByCode(db, c) # {} => Cardinality(QueryByCode(db', c)) = 1 ]_vars

------------------------------------------------------------------------------
\* the fetched XML lacks an element the configured depositor identity is written to
MissingExpectedElement ==
    /\ xml.wf
    /\ \/ /\ cfg.depositor_name # ""
          /\ \E t \in {"registrant", "depositor_name"} :
                \A i \in 1..Len(xml.elems) : xml.elems[i].tag # t
       \/ /\ cfg.depositor_email # ""
          /\ \A i \in 1..Len(xml.elems) : xml.elems[i].tag # "email_address"

(* C15: when the fetched XML lacks an element that the configured depositor *)
(* name or email is to be written to, only that document's processing ends: *)
(* the batch does not end while ISSNs or listed documents remain.           *)
C15_MissingElementEndsDocumentOnly ==
    (ret = "raised" /\ MissingExpectedElement) =>
        (pc = "crashed" => (issnsLeft = 0 /\ docsLeft = 0))

------------------------------------------------------------------------------
(* C16: in every call the fresh row, submission_status=waiting, is          *)
(* committed before the prefix gate is evaluated, before any catalog        *)
(* request and before any LogEvent of the call is added; from that commit   *)
(* on, through every later step and when the process dies, the committed    *)
(* store holds the call's row for the code.                                 *)
C16_WaitingRowCommittedFirst ==
    /\ pc \in {"l101", "l107", "l110"} =>
          (~Fetched /\ EventsOfCall(sess) = <<>>)
    /\ pc = "l110" => RowsOf(db) = {NewDeposit(depitem, document, now)}
    /\ (pc \in {"l110", "l128", "l157", "crashed"} \/ Returned) =>
          /\ Cardinality(RowsOf(db)) = 1
          /\ RowOf(db).oid = depitem
          /\ RowOf(db).submission_status \in {"waiting", "notapplicable", "error"}

\* the process died in mid-pipeline and the committed row is the waiting one
C16_Witness ==
    /\ pc = "crashed"
    /\ RowOf(db).submission_status = "waiting"
    /\ RowOf(db).oid = depitem
    /\ Len(EventsOfCall(db)) = 1

------------------------------------------------------------------------------
(* C18: in the document persisted in submission_xml, the registrant and     *)
(* depositor_name elements carry depositor_name exactly when it is          *)
(* non-empty, email_address carries depositor_email exactly when it is      *)
(* non-empty, every other element and every element of an empty setting is  *)
(* as fetched, and is_xml_valid is the schema's verdict on that rewritten   *)
(* document, not on the fetched one.                                        *)
C18_RewriteBeforeValidation ==
    (Returned /\ ret \in {"invalid", "valid"}) =>
        LET stored == RowOf(db).submission_xml[1]
            out == stored.elems
            orig == xml.elems
        IN /\ stored.wf
           /\ Len(out) = Len(orig)
           /\ \A i \in 1..Len(orig) :
                 /\ out[i].tag = orig[i].tag
                 /\ out[i].text =
                       IF orig[i].tag \in {"registrant", "depositor_name"}
                          /\ cfg.depositor_name # ""
                       THEN cfg.depositor_name
                       ELSE IF orig[i].tag = "email_address" /\ cfg.depositor_email # ""
                       THEN cfg.depositor_email
                       ELSE orig[i].text
           /\ RowOf(db).is_xml_valid = Some(SchemaValid(out))

\* only the name is configured: registrant and depositor_name are rewritten, the
\* email address is persisted as fetched
C18_Witness ==
    /\ Returned
    /\ ret \in {"invalid", "valid"}
    /\ cfg.depositor_name # ""
    /\ cfg.depositor_email = ""
    /\ LET out == RowOf(db).submission_xml[1].elems
       IN /\ out # xml.elems
          /\ \E i \in 1..Len(out) :
                out[i].tag = "email_address" /\ out[i].text = xml.elems[i].text

------------------------------------------------------------------------------
(* C19: in every committed state every Deposit row is consistent:           *)
(* is_xml_valid=true implies submission_status=waiting with doi_batch_id    *)
(* and submission_xml set; is_xml_valid=false implies                       *)
(* submission_status=error with submission_xml set;                         *)
(* submission_status=notapplicable implies feedback_status=notapplicable    *)
(* with is_xml_valid, submission_xml and doi_batch_id unset.                *)
C19_RowFieldsConsistent ==
    \A r \in db.deposit :
        /\ r.is_xml_valid = Some(TRUE) =>
              /\ r.submission_status = "waiting"
              /\ r.doi_batch_id # None
              /\ r.submission_xml # None
        /\ r.is_xml_valid = Some(FALSE) =>
              /\ r.submission_status = "error"
              /\ r.submission_xml # None
        /\ r.submission_status = "notapplicable" =>
              /\ r.feedback_status = Some("notapplicable")
              /\ r.is_xml_valid = None
              /\ r.submission_xml = None
              /\ r.doi_batch_id = None

\* the committed store holds an invalid row and a notapplicable row
C19_Witness ==
    /\ \E r \in db.deposit : r.is_xml_valid = Some(FALSE)
    /\ \E r \in db.deposit : r.submission_status = "notapplicable"

------------------------------------------------------------------------------
(* C20: for every Deposit object, in the committed store and in the live    *)
(* session, updated_at never decreases from one step to the next and is     *)
(* never earlier than started_at; when deposit() returns on the             *)
(* validation-success path updated_at and submission_updated_at still equal *)
(* started_at.                                                              *)
C20_UpdatedAtMonotonic ==
    [][ /\ \A r1 \in db.deposit, r2 \in db'.deposit :
               r1.oid = r2.oid => r1.updated_at <= r2.updated_at
        /\ pc' # "finished" =>
               \A r1 \in sess.deposit, r2 \in sess'.deposit :
                   r1.oid = r2.oid => r1.updated_at <= r2.updated_at
        /\ \A r \in db'.deposit \cup sess'.deposit : r.started_at <= r.updated_at
        /\ (pc' = "inner" /\ ret' = "valid") =>
               \A r \in QueryByCode(db', code') \cup QueryByCode(sess', code') :
                   /\ r.updated_at = r.started_at
                   /\ r.submission_updated_at = r.started_at ]_vars

\* validation succeeded at a later instant than the row's start
C20_Witness ==
    /\ Returned
    /\ ret = "valid"
    /\ RowOf(db).started_at < clock
    /\ RowOf(db).updated_at = RowOf(db).started_at

------------------------------------------------------------------------------
(* Two executions of deposit() for one code against one store, interleaved  *)
(* at the granularity of queries and commits. Each execution has its own    *)
(* session; between commits its only state is what its query loaded.        *)

Writers == {1, 2}

\* the documents the concurrent executions are called with: one code, with a
\* DOI of the configured prefix or none
WriterDocuments ==
    {d \in Documents : /\ d.publisher_id = "S1"
                       /\ d.doi \in {None, Some(<<"a", "B", "/", "x">>)}}

\* the store an earlier run leaves for the code: a notapplicable row and its event
PriorStore ==
    LET d0 == [collection_acronym |-> "scl", publisher_id |-> "S1", doi |-> None]
    IN [ deposit |-> {MismatchUpdate(NewDeposit(0, d0, 0), 0)},
         logevent |-> <<MismatchEvent(Code(d0), 0)>> ]

\* an execution that has not yet been entered
NewWriter ==
    [ pc |-> "l82",
      doc |-> [collection_acronym |-> "scl", publisher_id |-> "S1", doi |-> None],
      now |-> 0,
      found |-> {},
      xml |-> XmlString(FALSE, <<>>) ]

\* what the store does with an INSERT of a code that has a row: it rejects it
\* when code is a unique key, and stores a second row when it is not
DuplicateInsertOutcomes == {"integrity_error", "second_row"}

InitConcurrent ==
    /\ pc = "concurrent"
    /\ ret = "none"
    /\ cfg \in [prefix : Prefixes, depositor_name : DepositorNames,
                depositor_email : DepositorEmails]
    /\ xsd_ok \in BOOLEAN
    /\ crossref_schema = ParseSchema(xsd_ok)
    /\ issnsLeft = 0
    /\ docsLeft = 0
    /\ clock = 0
    /\ db \in {EmptyStore, PriorStore}
    /\ sess = db
    /\ requests = {}
    /\ calls = 0
    /\ document = [collection_acronym |-> "scl", publisher_id |-> "S1", doi |-> None]
    /\ code = <<>>
    /\ doi_prefix = <<>>
    /\ now = 0
    /\ depitem = 0
    /\ xml = XmlString(FALSE, <<>>)
    /\ mark = 0
    /\ writers = [p \in Writers |-> NewWriter]

batch_vars == <<pc, ret, config, issnsLeft, docsLeft, sess, calls, locals>>

\* the session of execution p holds its Deposit object and the store still has its row
OwnRowPresent(p) == \E r \in db.deposit : r.oid = p

\* lines 82-99 in execution p
WBegin(p) ==
    /\ writers[p].pc = "l82"
    /\ \E doc \in WriterDocuments, t \in Times :
          /\ writers' = [writers EXCEPT ![p].doc = doc, ![p].now = t, ![p].pc = "l101"]
          /\ clock' = t
    /\ UNCHANGED <<batch_vars, db, requests>>

\* line 101 in execution p: the existence check
WQuery(p) ==
    /\ writers[p].pc = "l101"
    /\ writers' = [writers EXCEPT ![p].found = QueryByCode(db, Code(writers[p].doc)),
                                  ![p].pc = "l103"]
    /\ UNCHANGED <<batch_vars, db, clock, requests>>

\* lines 103-105 in execution p: delete the object the query loaded, and commit;
\* a row that is no longer there is not an error
WDelete(p) ==
    /\ writers[p].pc = "l103"
    /\ LET loaded == writers[p].found
           present == {r \in db.deposit : \E f \in loaded : f.oid = r.oid}
       IN IF loaded # {} /\ present # {}
          THEN db' = SessDelete(db, CHOOSE r \in present : TRUE)
          ELSE UNCHANGED db
    /\ writers' = [writers EXCEPT ![p].pc = "l107"]
    /\ UNCHANGED <<batch_vars, clock, requests>>

\* lines 107-108 in execution p: add the new row and commit
WInsert(p) ==
    /\ writers[p].pc = "l107"
    /\ LET w == writers[p]
           row == NewDeposit(p, w.doc, w.now)
       IN IF QueryByCode(db, row.code) = {}
          THEN /\ db' = SessAddDeposit(db, row)
               /\ writers' = [writers EXCEPT ![p].pc = "l110"]
          ELSE \E o \in DuplicateInsertOutcomes :
                  IF o = "integrity_error"
                  THEN /\ writers' = [writers EXCEPT ![p].pc = "failed_insert"]
                       /\ UNCHANGED db
                  ELSE /\ db' = SessAddDeposit(db, row)
                       /\ writers' = [writers EXCEPT ![p].pc = "l110"]
    /\ UNCHANGED <<batch_vars, clock, requests>>

\* lines 110-126 in execution p; the commit fails when the object's row is gone
WGate(p) ==
    /\ writers[p].pc = "l110"
    /\ LET w == writers[p]
       IN IF GateMismatch(DoiPrefix(w.doc.doi), cfg.prefix)
          THEN \E t \in Times :
                  /\ clock' = t
                  /\ IF OwnRowPresent(p)
                     THEN /\ db' = SessAddLogEvent(
                                       Assign(db, p, MismatchUpdate(Tracked(db, p), t)),
                                       MismatchEvent(Code(w.doc), t))
                          /\ writers' = [writers EXCEPT ![p].now = t, ![p].pc = "done"]
                     ELSE /\ writers' = [writers EXCEPT ![p].now = t,
                                                        ![p].pc = "failed_update"]
                          /\ UNCHANGED db
          ELSE /\ writers' = [writers EXCEPT ![p].pc = "l128"]
               /\ UNCHANGED <<db, clock>>
    /\ UNCHANGED <<batch_vars, requests>>

\* lines 128-155 in execution p: the except branch commits nothing
WFetch(p) ==
    /\ writers[p].pc = "l128"
    /\ LET w == writers[p]
       IN /\ requests' = requests \cup {[oid |-> p, pid |-> w.doc.publisher_id,
                                        collection |-> w.doc.collection_acronym]}
          /\ \/ \E t \in Times :
                   /\ clock' = t
                   /\ writers' = [writers EXCEPT ![p].now = t, ![p].pc = "done"]
                   /\ UNCHANGED db
             \/ \E x \in XmlInputs :
                   /\ db' = SessAddLogEvent(db, LoadingEvent(Code(w.doc), w.now))
                   /\ writers' = [writers EXCEPT ![p].xml = x, ![p].pc = "l157"]
                   /\ UNCHANGED clock
    /\ UNCHANGED batch_vars

\* lines 157-192 in execution p; the commit fails when the object's row is gone
WValidate(p) ==
    /\ writers[p].pc = "l157"
    /\ LET w == writers[p]
           v == XmlIsValid(w.xml, cfg.depositor_name, cfg.depositor_email, crossref_schema)
           text == EtreeToString(v.parsed_xml)
           stored == Assign(db, p, SubmissionXmlUpdate(Tracked(db, p), text.text))
       IN IF v.raised \/ text.raised
          THEN /\ writers' = [writers EXCEPT ![p].pc = "raised"]
               /\ UNCHANGED <<db, clock>>
          ELSE \E t \in Times :
                  /\ clock' = t
                  /\ IF ~OwnRowPresent(p)
                     THEN /\ writers' = [writers EXCEPT ![p].now = t,
                                                        ![p].pc = "failed_update"]
                          /\ UNCHANGED db
                     ELSE /\ writers' = [writers EXCEPT ![p].now = t, ![p].pc = "done"]
                          /\ db' = IF v.is_valid
                                   THEN SessAddLogEvent(
                                            Assign(stored, p,
                                                   ValidUpdate(Tracked(stored, p),
                                                               v.parsed_xml.tree)),
                                            ValidEvent(Code(w.doc), t))
                                   ELSE SessAddLogEvent(
                                            Assign(stored, p,
                                                   InvalidUpdate(Tracked(stored, p), t)),
                                            InvalidEvent(Code(w.doc), v.exc, t))
    /\ UNCHANGED <<batch_vars, requests>>

NextConcurrent ==
    \/ \E p \in Writers : WBegin(p)
    \/ \E p \in Writers : WQuery(p)
    \/ \E p \in Writers : WDelete(p)
    \/ \E p \in Writers : WInsert(p)
    \/ \E p \in Writers : WGate(p)
    \/ \E p \in Writers : WFetch(p)
    \/ \E p \in Writers : WValidate(p)

SpecConcurrent == InitConcurrent /\ [][NextConcurrent]_vars

\* the store holds two rows of one code, or an insert was rejected as a duplicate
DuplicateRow ==
    \/ \E r1, r2 \in db.deposit : r1.code = r2.code /\ r1 # r2
    \/ \E p \in Writers : writers[p].pc = "failed_insert"

(* C17: with two executions of deposit() for one code interleaved, the      *)
(* one-row-per-code invariant is broken (two rows, or a rejected duplicate  *)
(* insert) by the race on the existence check and by nothing else: whenever *)
(* it is broken, both executions ran their existence check before the other *)
(* one's insert was committed, so neither saw the other's row.              *)
C17_DuplicateOnlyByRace ==
    DuplicateRow =>
        \A p \in Writers :
            /\ writers[p].pc \notin {"l82", "l101"}
            /\ \A r \in writers[p].found : r.oid \notin Writers

\* both executions passed the existence check, both inserted, both rows are committed
C17_Witness ==
    /\ \E r1, r2 \in db.deposit : r1.code = r2.code /\ r1.oid = 1 /\ r2.oid = 2
    /\ \A p \in Writers : writers[p].pc = "done"

====
